---- MODULE Spec2Model ----
(***************************************************************************)
(* vault-sidekick: the resource descriptor (VaultResource) and its        *)
(* validation, src/vault_resource.go.                                      *)
(*                                                                         *)
(* The descriptor is the record r.  Its options map is a function from a   *)
(* finite set of keys to strings.  Go iterates a map in an unspecified     *)
(* order, so IsValid takes the order of one call as a sequence holding     *)
(* every key once, chosen freely at each call.  Durations are counted in   *)
(* milliseconds.                                                           *)
(***************************************************************************)
EXTENDS Integers, Sequences, FiniteSets, TLC

VARIABLES r, fs, err, ret, validated

vars == <<r, fs, err, ret, validated>>

(* ---------------------------------------------------------------- bounds *)

\* The largest number of entries the options map is given.
MaxOptions == 2

\* The largest number of IsValid calls made in a row on a descriptor, between
\* two changes of the descriptor or of the filesystem.
MaxCalls == 2

(* ------------------------------------------------------------- constants *)

OptionFilename == "fn"
OptionFormat == "fmt"
OptionCommonName == "cn"
OptionTemplatePath == "tpl"
OptionRenewal == "rn"
OptionRevoke == "rv"
OptionUpdate == "up"

\* resourceFormatRegex, ^(yaml|json|ini|txt|cert|csv)$, as the set it matches.
resourceFormatRegex == {"yaml", "json", "ini", "txt", "cert", "csv"}

validResources == {"pki", "aws", "secret", "mysql", "tpl", "postgres", "cassandra"}

(* ------------------------------------------------ the inputs of the model *)

\* A key the validator does not recognise.
OptionUnknown == "zz"

OptionKeys ==
    {OptionFilename, OptionFormat, OptionCommonName, OptionTemplatePath,
     OptionRenewal, OptionRevoke, OptionUpdate, OptionUnknown}

\* The values the caller gives to each key: valid and invalid ones.
OptionValues(opt) ==
    CASE opt = OptionFormat -> {"json", "xml"}
      [] opt = OptionUpdate -> {"1h", "500ms", "abc"}
      [] opt = OptionRevoke -> {"true", "0", "yes"}
      [] opt = OptionRenewal -> {"T", "false", "maybe"}
      [] opt = OptionFilename -> {"", "out/web.pem"}
      [] opt = OptionCommonName -> {"", "web.example.com"}
      [] opt = OptionTemplatePath -> {"/etc/a.tpl", "/etc/none.tpl"}
      [] OTHER -> {"anything"}

ResourceTypes == validResources \cup {"ldap"}

Names == {"web"}

\* The template files that may exist on the filesystem.
TemplateFiles == {"/etc/a.tpl"}

(* ------------------------------------------------------- library functions *)

\* strconv.ParseBool: [ok, value].
ParseBool(str) ==
    IF str \in {"1", "t", "T", "TRUE", "true", "True"}
    THEN [ok |-> TRUE, value |-> TRUE]
    ELSE IF str \in {"0", "f", "F", "FALSE", "false", "False"}
    THEN [ok |-> TRUE, value |-> FALSE]
    ELSE [ok |-> FALSE, value |-> FALSE]

\* time.ParseDuration on the strings of the model, in milliseconds: [ok, value].
ParseDuration(str) ==
    CASE str = "1h" -> [ok |-> TRUE, value |-> 3600000]
      [] str = "2h" -> [ok |-> TRUE, value |-> 7200000]
      [] str = "500ms" -> [ok |-> TRUE, value |-> 500]
      [] str = "0" -> [ok |-> TRUE, value |-> 0]
      [] OTHER -> [ok |-> FALSE, value |-> 0]

\* fileExists(path): whether the path names an existing file.
fileExists(path, files) == path \in files

\* fmt.Sprintf("%s.%s", a, b)
SprintfDot(a, b) == a \o "." \o b

(* ------------------------------------------------------------------ errors *)

\* The error values: nil, or a cause with the option and value it reports.
NilError == [kind |-> "nil", opt |-> "", val |-> ""]

Errorf(kind, opt, val) == [kind |-> kind, opt |-> opt, val |-> val]

\* No IsValid call has judged the descriptor as it stands.
NotValidated == [kind |-> "unvalidated", opt |-> "", val |-> ""]

(* -------------------------------------------------------------- descriptor *)

EmptyOptions == [k \in {} |-> ""]

defaultVaultResource ==
    [resource |-> "", name |-> "", format |-> "yaml", renewable |-> FALSE,
     revoked |-> FALSE, update |-> 0, options |-> EmptyOptions]

\* A plausible slip: an empty fn value is taken for no fn option.
GetFilename_EmptyIsUnset(d) ==
    IF OptionFilename \in DOMAIN d.options /\ d.options[OptionFilename] # ""
    THEN d.options[OptionFilename]
    ELSE SprintfDot(d.name, d.resource)

\* GetFilename: the fn option when the key is there, else name.resource.
GetFilename(d) ==
    IF OptionFilename \in DOMAIN d.options
    THEN d.options[OptionFilename]
    ELSE SprintfDot(d.name, d.resource)

\* String: resource/name.
String(d) == d.resource \o "/" \o d.name

\* A plausible slip: pki asks for a common name that is not empty.
isValidResource_NonEmptyName(d) ==
    CASE d.resource = "pki" ->
            IF OptionCommonName \notin DOMAIN d.options \/ d.options[OptionCommonName] = ""
            THEN Errorf("MissingRequiredOption", OptionCommonName, d.resource)
            ELSE NilError
      [] d.resource = "tpl" ->
            IF OptionTemplatePath \notin DOMAIN d.options
            THEN Errorf("MissingRequiredOption", OptionTemplatePath, d.resource)
            ELSE NilError
      [] OTHER -> NilError

\* isValidResource: the options the resource type requires.
isValidResource(d) ==
    CASE d.resource = "pki" ->
            IF OptionCommonName \notin DOMAIN d.options
            THEN Errorf("MissingRequiredOption", OptionCommonName, d.resource)
            ELSE NilError
      [] d.resource = "tpl" ->
            IF OptionTemplatePath \notin DOMAIN d.options
            THEN Errorf("MissingRequiredOption", OptionTemplatePath, d.resource)
            ELSE NilError
      [] OTHER -> NilError

\* The cases of the switch of isValidOptions, each on one entry (opt, val) of
\* the map: the descriptor after the case, and the error the loop returns
\* with, if any.

\* A plausible slip: the format is cached before it is matched.
caseFormat_AssignsFirst(d, val) ==
    IF d.options[OptionFormat] \notin resourceFormatRegex
    THEN [r |-> [d EXCEPT !.format = val],
          err |-> Errorf("InvalidFormat", OptionFormat, d.options[OptionFormat])]
    ELSE [r |-> [d EXCEPT !.format = val], err |-> NilError]

\* A plausible slip: the option is taken out of the map once it is cached.
caseFormat_Consumes(d, val) ==
    IF d.options[OptionFormat] \notin resourceFormatRegex
    THEN [r |-> d, err |-> Errorf("InvalidFormat", OptionFormat, d.options[OptionFormat])]
    ELSE [r |-> [d EXCEPT !.format = val,
                          !.options = [k \in DOMAIN d.options \ {OptionFormat} |-> d.options[k]]],
          err |-> NilError]

\* case OptionFormat
caseFormat(d, val) ==
    IF d.options[OptionFormat] \notin resourceFormatRegex
    THEN [r |-> d, err |-> Errorf("InvalidFormat", OptionFormat, d.options[OptionFormat])]
    ELSE [r |-> [d EXCEPT !.format = val], err |-> NilError]

\* case OptionUpdate
caseUpdate(d, val) ==
    LET p == ParseDuration(val) IN
    IF ~p.ok
    THEN [r |-> d, err |-> Errorf("InvalidDuration", OptionUpdate, val)]
    ELSE [r |-> [d EXCEPT !.update = p.value], err |-> NilError]

\* A plausible slip: the parsed choice flips the field instead of setting it.
caseRevoke_Toggles(d, val) ==
    LET p == ParseBool(val) IN
    IF ~p.ok
    THEN [r |-> d, err |-> Errorf("InvalidBoolean", OptionRevoke, val)]
    ELSE [r |-> [d EXCEPT !.revoked = (p.value # d.revoked)], err |-> NilError]

\* case OptionRevoke
caseRevoke(d, val) ==
    LET p == ParseBool(val) IN
    IF ~p.ok
    THEN [r |-> d, err |-> Errorf("InvalidBoolean", OptionRevoke, val)]
    ELSE [r |-> [d EXCEPT !.revoked = p.value], err |-> NilError]

\* A plausible slip: the parse error is dropped.
caseRenewal_Unchecked(d, val) ==
    LET p == ParseBool(val) IN
    [r |-> [d EXCEPT !.renewable = p.value], err |-> NilError]

\* A plausible slip: the case is a copy of the revoke case.
caseRenewal_SetsRevoked(d, val) ==
    LET p == ParseBool(val) IN
    IF ~p.ok
    THEN [r |-> d, err |-> Errorf("InvalidBoolean", OptionRenewal, val)]
    ELSE [r |-> [d EXCEPT !.revoked = p.value], err |-> NilError]

\* case OptionRenewal
caseRenewal(d, val) ==
    LET p == ParseBool(val) IN
    IF ~p.ok
    THEN [r |-> d, err |-> Errorf("InvalidBoolean", OptionRenewal, val)]
    ELSE [r |-> [d EXCEPT !.renewable = p.value], err |-> NilError]

\* case OptionTemplatePath
caseTemplatePath(d, val, files) ==
    IF ~fileExists(val, files)
    THEN [r |-> d, err |-> Errorf("TemplateNotFound", OptionTemplatePath, val)]
    ELSE [r |-> d, err |-> NilError]

\* The switch on the key; fn, cn and the keys it does not name do nothing.
optionCase(d, opt, files) ==
    LET val == d.options[opt] IN
    CASE opt = OptionFormat -> caseFormat(d, val)
      [] opt = OptionUpdate -> caseUpdate(d, val)
      [] opt = OptionRevoke -> caseRevoke(d, val)
      [] opt = OptionRenewal -> caseRenewal(d, val)
      [] opt = OptionFilename -> [r |-> d, err |-> NilError]
      [] opt = OptionCommonName -> [r |-> d, err |-> NilError]
      [] opt = OptionTemplatePath -> caseTemplatePath(d, val, files)
      [] OTHER -> [r |-> d, err |-> NilError]

\* isValidOptions: the loop over the options in the order of this call,
\* returning at the first error.
RECURSIVE isValidOptions(_, _, _)
isValidOptions(d, order, files) ==
    IF order = <<>>
    THEN [r |-> d, err |-> NilError]
    ELSE LET step == optionCase(d, Head(order), files) IN
         IF step.err # NilError
         THEN step
         ELSE isValidOptions(step.r, Tail(order), files)

\* A plausible slip: the required options are checked before the options.
IsValid_RequiredFirst(d, order, files) ==
    IF d.resource \notin validResources
    THEN [r |-> d, err |-> Errorf("UnsupportedResourceType", "", d.resource)]
    ELSE IF isValidResource(d) # NilError
    THEN [r |-> d, err |-> isValidResource(d)]
    ELSE isValidOptions(d, order, files)

\* IsValid: the resource type, then the options, then the required options.
IsValid(d, order, files) ==
    IF d.resource \notin validResources
    THEN [r |-> d, err |-> Errorf("UnsupportedResourceType", "", d.resource)]
    ELSE LET o == isValidOptions(d, order, files) IN
         IF o.err # NilError
         THEN o
         ELSE [r |-> o.r, err |-> isValidResource(o.r)]

\* The orders in which a map with these keys may be iterated.
Orders(keys) ==
    {s \in [1..Cardinality(keys) -> keys] : \A i, j \in 1..Cardinality(keys) : s[i] = s[j] => i = j}

(* ------------------------------------------------------------------ actions *)

\* r: the descriptor.  fs: the template files that exist.  err: what the last
\* IsValid call returned, NotValidated once the descriptor or the filesystem
\* has changed since.  validated: the number of IsValid calls since that
\* change.  ret: what GetFilename returned, when it was the last operation.

NoReturn == [called |-> FALSE, val |-> ""]

Init ==
    /\ r = defaultVaultResource
    /\ fs \in SUBSET TemplateFiles
    /\ err = NotValidated
    /\ ret = NoReturn
    /\ validated = 0

\* The caller sets the resource type.
SetResource ==
    \E t \in ResourceTypes :
        /\ r' = [r EXCEPT !.resource = t]
        /\ err' = NotValidated
        /\ ret' = NoReturn
        /\ validated' = 0
        /\ UNCHANGED fs

\* The caller sets the name.
SetName ==
    \E n \in Names :
        /\ r' = [r EXCEPT !.name = n]
        /\ err' = NotValidated
        /\ ret' = NoReturn
        /\ validated' = 0
        /\ UNCHANGED fs

\* The caller stores an option: options[opt] = val.
SetOption ==
    \E opt \in OptionKeys : \E val \in OptionValues(opt) :
        /\ opt \in DOMAIN r.options \/ Cardinality(DOMAIN r.options) < MaxOptions
        /\ r' = [r EXCEPT !.options =
                    [k \in DOMAIN r.options \cup {opt} |->
                        IF k = opt THEN val ELSE r.options[k]]]
        /\ err' = NotValidated
        /\ ret' = NoReturn
        /\ validated' = 0
        /\ UNCHANGED fs

\* A template file appears on the filesystem or is removed from it.
ChangeFile ==
    \E f \in TemplateFiles :
        /\ fs' = IF f \in fs THEN fs \ {f} ELSE fs \cup {f}
        /\ err' = NotValidated
        /\ ret' = NoReturn
        /\ validated' = 0
        /\ UNCHANGED r

\* r.IsValid(), the map iterated in some order.
CallIsValid ==
    /\ validated < MaxCalls
    /\ \E order \in Orders(DOMAIN r.options) :
        LET out == IsValid(r, order, fs) IN
        /\ r' = out.r
        /\ err' = out.err
        /\ ret' = NoReturn
        /\ validated' = validated + 1
        /\ UNCHANGED fs

\* r.GetFilename(), on a copy of the descriptor.
CallGetFilename ==
    /\ ret' = [called |-> TRUE, val |-> GetFilename(r)]
    /\ UNCHANGED <<r, fs, err, validated>>

Next ==
    \/ SetResource
    \/ SetName
    \/ SetOption
    \/ ChangeFile
    \/ CallIsValid
    \/ CallGetFilename

Spec == Init /\ [][Next]_vars

(* ------------------------------------------------------------------ claims *)

\* A step of IsValid: the count of calls goes up.
IsValidStep == validated' = validated + 1

\* The cached typed fields of a descriptor.
Cached(d) == <<d.format, d.renewable, d.revoked, d.update>>

\* The causes the option typing pass reports.
OptionErrors == {"InvalidFormat", "InvalidDuration", "InvalidBoolean", "TemplateNotFound"}

\* The cause reported for an invalid value of a recognised key.
ErrorOf(opt) ==
    CASE opt = "fmt" -> "InvalidFormat"
      [] opt = "up" -> "InvalidDuration"
      [] opt \in {"rv", "rn"} -> "InvalidBoolean"
      [] opt = "tpl" -> "TemplateNotFound"
      [] OTHER -> "none"

\* The entry (opt, val) is a recognised option with an invalid value.
InvalidOption(opt, val, files) ==
    \/ opt = "fmt" /\ val \notin {"yaml", "json", "ini", "txt", "cert", "csv"}
    \/ opt = "up" /\ ~ParseDuration(val).ok
    \/ opt \in {"rv", "rn"} /\ ~ParseBool(val).ok
    \/ opt = "tpl" /\ val \notin files

\* The invalid options of a descriptor.
InvalidOptions(d, files) ==
    {opt \in DOMAIN d.options : InvalidOption(opt, d.options[opt], files)}

\* The descriptor lacks the key its resource type requires.
LacksRequired(d) ==
    \/ d.resource = "pki" /\ "cn" \notin DOMAIN d.options
    \/ d.resource = "tpl" /\ "tpl" \notin DOMAIN d.options

\* C1: IsValid checks the resource type, then the options, then the required
\* options, and returns the error of the first check that fails: a resource
\* type outside the valid set gives UnsupportedResourceType whatever the
\* options hold, and a pki or tpl descriptor that lacks its required key and
\* carries an invalid option gives the option error, not MissingRequiredOption.
C1_CheckOrder ==
    [][IsValidStep =>
        /\ r.resource \notin {"pki", "aws", "secret", "mysql", "tpl", "postgres", "cassandra"}
              => err'.kind = "UnsupportedResourceType" /\ err'.val = r.resource
        /\ (r.resource \in {"pki", "tpl"} /\ LacksRequired(r) /\ InvalidOptions(r, fs) # {})
              => err'.kind \in OptionErrors]_vars

\* C1 witness: a pki descriptor without cn and with an invalid option was
\* rejected for the option.
C1_Witness ==
    /\ validated > 0
    /\ r.resource = "pki"
    /\ LacksRequired(r)
    /\ InvalidOptions(r, fs) # {}
    /\ err.kind \in OptionErrors

C3_OrderIndependent ==
    [][IsValidStep =>
        \A order \in Orders(DOMAIN r.options) :
            LET out == IsValid(r, order, fs) IN
            /\ (out.err = NilError) <=> (err' = NilError)
            /\ Cached(out.r) = Cached(r')]_vars

\* The typed fields reflect the options: the parsed value of each key that is
\* there, the default for each key that is not.
Reflects(d) ==
    /\ d.format = IF "fmt" \in DOMAIN d.options THEN d.options["fmt"] ELSE "yaml"
    /\ d.update = IF "up" \in DOMAIN d.options THEN ParseDuration(d.options["up"]).value ELSE 0
    /\ d.revoked = IF "rv" \in DOMAIN d.options THEN ParseBool(d.options["rv"]).value ELSE FALSE
    /\ d.renewable = IF "rn" \in DOMAIN d.options THEN ParseBool(d.options["rn"]).value ELSE FALSE

\* C4: when IsValid succeeds on a descriptor whose typed fields hold the
\* defaults (yaml, false, false, 0), each typed field reflects its option:
\* the fmt value, the parsed up, rv and rn values when the key is there, the
\* default when it is not.
C4_FieldsReflectOptions ==
    [][(IsValidStep /\ err' = NilError /\ Cached(r) = Cached(defaultVaultResource))
          => Reflects(r')]_vars

\* C4 witness: a validated descriptor with fmt and up set, cached as parsed,
\* and the other fields at their defaults.
C4_Witness ==
    /\ validated > 0
    /\ err = NilError
    /\ DOMAIN r.options = {"fmt", "up"}
    /\ r.options["up"] = "1h"
    /\ Cached(r) = <<"json", FALSE, FALSE, 3600000>>

\* C5: validation is all-or-nothing: an IsValid call succeeds, or it is
\* rejected with one cause and has changed none of format, renewable, revoked
\* and update.
C5_AllOrNothing ==
    [][IsValidStep =>
        \/ err' = NilError
        \/ /\ err'.kind \in OptionErrors \cup {"UnsupportedResourceType", "MissingRequiredOption"}
           /\ Cached(r') = Cached(r)]_vars

\* C6: IsValid is idempotent: after a successful call, with the options and
\* the filesystem unchanged since, a second call succeeds too and leaves
\* format, renewable, revoked and update as the first call left them.
C6_Idempotent ==
    [][(IsValidStep /\ err = NilError) =>
          err' = NilError /\ Cached(r') = Cached(r)]_vars

\* C6 witness: a second call in a row has succeeded, on a descriptor whose
\* options set the cached fields.
C6_Witness ==
    /\ validated = 2
    /\ err = NilError
    /\ DOMAIN r.options = {"rv", "up"}
    /\ Cached(r) = <<"yaml", FALSE, TRUE, 500>>

\* C7: IsValid never changes the options map, nor the resource type and the
\* name, whether it succeeds or fails at any of its checks.
C7_OptionsUntouched ==
    [][IsValidStep =>
        /\ r'.options = r.options
        /\ r'.resource = r.resource
        /\ r'.name = r.name]_vars

\* C7 witness: a call has cached an option and the option is still there.
C7_Witness ==
    /\ validated > 0
    /\ "fmt" \in DOMAIN r.options
    /\ r.options["fmt"] = "json"
    /\ r.format = "json"
    /\ err.kind = "InvalidDuration"

\* C8: when the resource type and the options are valid, IsValid fails with
\* MissingRequiredOption exactly when the type is pki and there is no cn key,
\* or the type is tpl and there is no tpl key; the value of the key does not
\* matter, and the other five types never fail with MissingRequiredOption.
C8_RequiredOptions ==
    [][IsValidStep =>
        /\ (r.resource \in validResources /\ InvalidOptions(r, fs) = {}) =>
              /\ err'.kind = "MissingRequiredOption" <=> LacksRequired(r)
              /\ ~LacksRequired(r) => err' = NilError
        /\ r.resource \in {"aws", "secret", "mysql", "postgres", "cassandra"}
              => err'.kind # "MissingRequiredOption"]_vars

\* C8 witness: a pki descriptor whose cn value is empty has passed.
C8_Witness ==
    /\ validated > 0
    /\ r.resource = "pki"
    /\ "cn" \in DOMAIN r.options
    /\ r.options["cn"] = ""
    /\ err = NilError

\* C9: GetFilename returns the fn value as it is whenever the fn key is in the
\* options, an empty value included, and name.resource otherwise, before and
\* after validation, and changes no field of the descriptor.
C9_Filename ==
    [][ret'.called =>
        /\ r' = r
        /\ ret'.val = IF "fn" \in DOMAIN r.options
                      THEN r.options["fn"]
                      ELSE r.name \o "." \o r.resource]_vars

\* C9 witness: after a failed validation, the empty fn value is returned.
C9_Witness ==
    /\ ret.called
    /\ validated > 0
    /\ err.kind \notin {"nil", "unvalidated"}
    /\ "fn" \in DOMAIN r.options
    /\ r.options["fn"] = ""
    /\ ret.val = ""

====
